---- MODULE Spec2Model ----
(***************************************************************************)
(* Model of the PDF categorizer worker (src/pdf.py): the batch loop of     *)
(* PdfProcessorWorker.run, its per-file pipeline (text extraction and      *)
(* disclaimer removal, the chat-completion call with retries, the parsing  *)
(* of the tagged response) and the pivoted CSV aggregation.                *)
(*                                                                         *)
(* Strings are sequences of character codes (ASCII), so that trimming,     *)
(* uppercasing, splitting and lexicographic sorting are computed and not   *)
(* assumed.                                                                *)
(***************************************************************************)
EXTENDS Integers, Sequences, FiniteSets, TLC

(* ------------------------------------------------------------------ *)
(* Characters                                                         *)
(* ------------------------------------------------------------------ *)

\* '\n', ' ', '#', '_' as character codes
NL == 10
SP == 32
Hash == 35
Underscore == 95

IsSpace(c) == c \in {9, NL, 11, 12, 13, SP}

IsUpperCh(c) == c >= 65 /\ c <= 90
IsLowerCh(c) == c >= 97 /\ c <= 122
IsDigitCh(c) == c >= 48 /\ c <= 57

\* the regex class \w
IsWord(c) == IsUpperCh(c) \/ IsLowerCh(c) \/ IsDigitCh(c) \/ c = Underscore

UpperCh(c) == IF IsLowerCh(c) THEN c - 32 ELSE c
LowerCh(c) == IF IsUpperCh(c) THEN c + 32 ELSE c

\* str.upper() / str.lower()
Upper(s) == [i \in 1..Len(s) |-> UpperCh(s[i])]
Lower(s) == [i \in 1..Len(s) |-> LowerCh(s[i])]

IsBlank(s) == \A i \in 1..Len(s) : IsSpace(s[i])

\* str.strip()
Strip(s) ==
    IF IsBlank(s) THEN <<>>
    ELSE LET a == CHOOSE i \in 1..Len(s) :
                    ~IsSpace(s[i]) /\ \A j \in 1..(i - 1) : IsSpace(s[j])
             b == CHOOSE i \in 1..Len(s) :
                    ~IsSpace(s[i]) /\ \A j \in (i + 1)..Len(s) : IsSpace(s[j])
         IN  SubSeq(s, a, b)

\* str.replace('#', '')
RemoveHash(s) == SelectSeq(s, LAMBDA c : c # Hash)

\* lexicographic order of two strings by character code (Python's str <)
RECURSIVE StrLess(_, _)
StrLess(a, b) ==
    IF b = <<>> THEN FALSE
    ELSE IF a = <<>> THEN TRUE
    ELSE IF a[1] # b[1] THEN a[1] < b[1]
    ELSE StrLess(Tail(a), Tail(b))

(* ------------------------------------------------------------------ *)
(* Response parsing: re.split(r'(?m)^\s*(#\w+)\s*$', text)            *)
(* ------------------------------------------------------------------ *)

\* first position >= p of s that is not whitespace (Len(s)+1 if none): \s*
RECURSIVE SkipSpace(_, _)
SkipSpace(s, p) ==
    IF p > Len(s) \/ ~IsSpace(s[p]) THEN p ELSE SkipSpace(s, p + 1)

\* first position >= p of s that is not a word character: \w*
RECURSIVE SkipWord(_, _)
SkipWord(s, p) ==
    IF p > Len(s) \/ ~IsWord(s[p]) THEN p ELSE SkipWord(s, p + 1)

\* (?m)^ matches at p
IsLineStart(s, p) == p = 1 \/ s[p - 1] = NL

NoMatch == [ok |-> FALSE, gs |-> 0, ge |-> 0, me |-> 0]

\* The match of ^\s*(#\w+)\s*$ that starts at p, as the backtracking matcher
\* finds it: gs..ge-1 is the group, me the first position after the match.
\* The trailing \s* is greedy and gives back characters until $ holds, that
\* is until the match ends at the end of the text or right before a newline.
HeadingAt(s, p) ==
    LET q == SkipSpace(s, p) IN
    IF q > Len(s) \/ s[q] # Hash THEN NoMatch
    ELSE LET r == SkipWord(s, q + 1) IN
         IF r = q + 1 THEN NoMatch
         ELSE LET e == SkipSpace(s, r) IN
              IF e = Len(s) + 1 THEN [ok |-> TRUE, gs |-> q, ge |-> r, me |-> e]
              ELSE LET nls == {k \in r..(e - 1) : s[k] = NL} IN
                   IF nls = {} THEN NoMatch
                   ELSE [ok |-> TRUE, gs |-> q, ge |-> r,
                         me |-> CHOOSE k \in nls : \A j \in nls : j <= k]

\* re.split from search position p, the current chunk starting at from
RECURSIVE SplitFrom(_, _, _)
SplitFrom(s, p, from) ==
    IF p > Len(s) THEN << SubSeq(s, from, Len(s)) >>
    ELSE LET m == IF IsLineStart(s, p) THEN HeadingAt(s, p) ELSE NoMatch IN
         IF m.ok
         THEN << SubSeq(s, from, p - 1), SubSeq(s, m.gs, m.ge - 1) >>
              \o SplitFrom(s, m.me, m.me)
         ELSE SplitFrom(s, p + 1, from)

ReSplit(s) == SplitFrom(s, 1, 1)

(* ------------------------------------------------------------------ *)
(* parse_and_score_response                                           *)
(* ------------------------------------------------------------------ *)

\* "_Score", "_Content", "FileName"
ScoreSuffix == <<95, 83, 99, 111, 114, 101>>
ContentSuffix == <<95, 67, 111, 110, 116, 101, 110, 116>>
FileNameKey == <<70, 105, 108, 101, 78, 97, 109, 101>>

\* f'{category}_Score', f'{category}_Content'
ScoreKey(category) == category \o ScoreSuffix
ContentKey(category) == category \o ContentSuffix

\* The values a record holds and the CSV writer prints: a str, an int, or a
\* float (kept in ten-thousandths).
StrVal(s) == [kind |-> "str", str |-> s, val |-> 0]
IntVal(v) == [kind |-> "int", str |-> <<>>, val |-> v]
FloatVal(v) == [kind |-> "float", str |-> <<>>, val |-> v]

\* score = -1: the value a category keeps when no scorer runs or the scorer raises
Unscored == IntVal(-1)

\* What the scorer can do for one category: raise, or return a cosine
\* similarity rounded to 4 places (kept in ten-thousandths).
ScorerOutcomes == {[raised |-> TRUE, val |-> 0], [raised |-> FALSE, val |-> 4242]}

\* a scoring that records 0, not the sentinel, for a category left unscored
ScoreOf_ZeroWhenUnscored(sm, o) ==
    IF sm /\ ~o.raised THEN FloatVal(o.val) ELSE IntVal(0)

\* lines 153-160: the score of one category
ScoreOf(score_model, outcome) ==
    IF score_model /\ ~outcome.raised
    THEN FloatVal(outcome.val)
    ELSE Unscored

\* line 143
ContentBlocks(chunks) ==
    IF chunks # <<>> /\ Strip(chunks[1]) = <<>> THEN Tail(chunks) ELSE chunks

\* number of (category, content) pairs the loop of line 148 visits
PairCount(categorized_text) == Len(ContentBlocks(ReSplit(categorized_text))) \div 2

\* dict assignment d[k] = v
DictSet(d, k, v) == (k :> v) @@ d

EmptyDict == << >>

\* lines 148-163: iterations j..PairCount of the loop, file_data so far in acc
RECURSIVE ParseLoop(_, _, _, _, _)
ParseLoop(blocks, j, score_model, outcomes, acc) ==
    IF 2 * j > Len(blocks) THEN acc
    ELSE LET category == Upper(Strip(RemoveHash(blocks[2 * j - 1])))
             content == Strip(blocks[2 * j])
             next == IF content # <<>>
                     THEN DictSet(DictSet(acc, ScoreKey(category),
                                          ScoreOf(score_model, outcomes[j])),
                                  ContentKey(category), StrVal(content))
                     ELSE acc
         IN  ParseLoop(blocks, j + 1, score_model, outcomes, next)

\* parse_and_score_response: the returned file_data and the message it logs
parse_and_score_response(categorized_text, score_model, outcomes) ==
    LET content_blocks == ContentBlocks(ReSplit(categorized_text)) IN
    IF content_blocks = <<>>
    THEN [file_data |-> EmptyDict, logged |-> "could_not_parse"]
    ELSE [file_data |-> ParseLoop(content_blocks, 1, score_model, outcomes, EmptyDict),
          logged |-> "parsed_and_scored"]

(* ------------------------------------------------------------------ *)
(* extract_and_clean_text: disclaimer removal and whitespace          *)
(* normalisation (lines 105-109)                                      *)
(* ------------------------------------------------------------------ *)

\* '(' : a pattern with an unbalanced '(' does not compile (re.error)
LParen == 40

\* Patterns are literal strings, the regular expressions without operators;
\* the only operator character patterns are drawn from is '(' and no pattern
\* has a ')', so a pattern with '(' is an invalid regex.
IsValidRegex(pattern) == \A i \in 1..Len(pattern) : pattern[i] # LParen

\* the literal pattern matches text at position p, ignoring case
MatchesAt(pattern, text, p) ==
    /\ p + Len(pattern) - 1 <= Len(text)
    /\ \A i \in 1..Len(pattern) : LowerCh(text[p + i - 1]) = LowerCh(pattern[i])

\* re.sub(pattern, '', text, flags=re.IGNORECASE | re.DOTALL) from position p:
\* leftmost matches, not overlapping, in one pass
RECURSIVE SubFrom(_, _, _)
SubFrom(pattern, text, p) ==
    IF p > Len(text) THEN <<>>
    ELSE IF MatchesAt(pattern, text, p) THEN SubFrom(pattern, text, p + Len(pattern))
    ELSE <<text[p]>> \o SubFrom(pattern, text, p + 1)

\* line 107-108: one pattern; an invalid one is skipped with a warning
ReSub(pattern, text) ==
    IF IsValidRegex(pattern) THEN SubFrom(pattern, text, 1) ELSE text

\* line 105: [p.strip() for p in disclaimers if p.strip()]
RECURSIVE DisclaimerPatterns(_)
DisclaimerPatterns(disclaimers) ==
    IF disclaimers = <<>> THEN <<>>
    ELSE LET p == Strip(Head(disclaimers)) IN
         (IF p # <<>> THEN <<p>> ELSE <<>>) \o DisclaimerPatterns(Tail(disclaimers))

\* lines 106-108: the patterns applied in list order
RECURSIVE RemoveDisclaimers(_, _)
RemoveDisclaimers(patterns, text) ==
    IF patterns = <<>> THEN text
    ELSE RemoveDisclaimers(Tail(patterns), ReSub(Head(patterns), text))

\* line 109: ' '.join(text.split()) from position p; started says a word was
\* already emitted
RECURSIVE JoinSplitFrom(_, _, _)
JoinSplitFrom(text, p, started) ==
    LET q == SkipSpace(text, p) IN
    IF q > Len(text) THEN <<>>
    ELSE LET e == CHOOSE k \in q..Len(text) :
                    /\ \A j \in q..k : ~IsSpace(text[j])
                    /\ (k = Len(text) \/ IsSpace(text[k + 1]))
         IN  (IF started THEN <<SP>> ELSE <<>>) \o SubSeq(text, q, e)
             \o JoinSplitFrom(text, e + 1, TRUE)

\* text.replace('  ', ' '): pairs of spaces collapsed in one pass
RECURSIVE CollapsePairsFrom(_, _)
CollapsePairsFrom(text, p) ==
    IF p > Len(text) THEN <<>>
    ELSE IF p < Len(text) /\ text[p] = SP /\ text[p + 1] = SP
    THEN <<SP>> \o CollapsePairsFrom(text, p + 2)
    ELSE <<text[p]>> \o CollapsePairsFrom(text, p + 1)

NormaliseWhitespace_Pairs(text) == CollapsePairsFrom(text, 1)

NormaliseWhitespace(text) == JoinSplitFrom(text, 1, FALSE)

\* lines 105-109 on the text of the pages
CleanText(disclaimers, text) ==
    NormaliseWhitespace(RemoveDisclaimers(DisclaimerPatterns(disclaimers), text))

(* ------------------------------------------------------------------ *)
(* write_pivoted_csv                                                  *)
(* ------------------------------------------------------------------ *)

\* dict.keys()
Keys(d) == DOMAIN d

\* dict.update
DictUpdate(d, e) == e @@ d

\* sorted(): the strings of the set keys in ascending order
RECURSIVE Sorted(_)
Sorted(keys) ==
    IF keys = {} THEN <<>>
    ELSE LET least == CHOOSE k \in keys : \A o \in keys \ {k} : StrLess(k, o)
         IN  <<least>> \o Sorted(keys \ {least})

\* field names taken from the first record alone
SortedHeaders_FirstRecord(processed_files_dict) ==
    <<FileNameKey>> \o Sorted(Keys(processed_files_dict[1]) \ {FileNameKey})

\* lines 173-177: FileName and then every other key of every record, sorted
SortedHeaders(processed_files_dict) ==
    LET all_headers == {FileNameKey} \cup
            UNION {Keys(processed_files_dict[f]) : f \in 1..Len(processed_files_dict)}
    IN  <<FileNameKey>> \o Sorted(all_headers \ {FileNameKey})

\* the cell a csv.DictWriter writes without a value: restval = ''
EmptyCell == StrVal(<<>>)

\* csv.DictWriter row: rowdict.get(key, restval) for each field name
CsvRow(fieldnames, rowdict) ==
    [c \in 1..Len(fieldnames) |->
        IF fieldnames[c] \in Keys(rowdict) THEN rowdict[fieldnames[c]] ELSE EmptyCell]

NoFile == [written |-> FALSE, header |-> <<>>, rows |-> <<>>]

\* write_pivoted_csv: the file it leaves, what it logs, the errors it signals.
\* writable says whether open(output_file, 'w') and the writes succeed.
write_pivoted_csv(processed_files_dict, writable) ==
    IF processed_files_dict = <<>>
    THEN [file |-> NoFile, logged |-> {"no_content_categorized"}, errors |-> 0]
    ELSE IF ~writable
    THEN [file |-> NoFile, logged |-> {}, errors |-> 1]
    ELSE LET sorted_headers == SortedHeaders(processed_files_dict) IN
         [file |-> [written |-> TRUE,
                    header |-> sorted_headers,
                    rows |-> [f \in 1..Len(processed_files_dict) |->
                                 CsvRow(sorted_headers, processed_files_dict[f])]],
          logged |-> {"saved"},
          errors |-> 0]

(* ------------------------------------------------------------------ *)
(* The worker: PdfProcessorWorker.run and the GUI handlers around it  *)
(* ------------------------------------------------------------------ *)

\* largest number of PDF files in the input folder
MaxFiles == 3

\* for attempt in range(3)
ApiAttempts == 3

\* the name of the f-th file of the listing: "a.pdf", "b.pdf", ...
PdfName(f) == <<96 + f, 46, 112, 100, 102>>

\* config['disclaimers']: "CONFIDENTIAL" and "(" (an invalid pattern)
Disclaimers == << <<67, 79, 78, 70, 73, 68, 69, 78, 84, 73, 65, 76>>, <<40>> >>

\* text of the pages of a readable PDF: "", "confidential", "Gold up Confidential"
PageTexts ==
    { <<>>,
      <<99, 111, 110, 102, 105, 100, 101, 110, 116, 105, 97, 108>>,
      <<71, 111, 108, 100, 32, 117, 112, 32, 67, 111, 110, 102, 105, 100, 101, 110,
        116, 105, 97, 108>> }

\* message content of a 2xx reply with choices:
\* "#GOLD\nUp\n#OIL\nCut", "#gold\nDown", "Note\n#OIL\nCut", "None", " "
ReplyContents ==
    { <<35, 71, 79, 76, 68, 10, 85, 112, 10, 35, 79, 73, 76, 10, 67, 117, 116>>,
      <<35, 103, 111, 108, 100, 10, 68, 111, 119, 110>>,
      <<78, 111, 116, 101, 10, 35, 79, 73, 76, 10, 67, 117, 116>>,
      <<78, 111, 110, 101>>,
      <<32>> }

\* What one request can come to: a transport failure (RequestException: no
\* connection, timeout, non-2xx status), a 2xx reply without choices, a 2xx
\* reply whose JSON lacks choices[0].message.content as a string (KeyError,
\* TypeError, AttributeError: not a RequestException), a 2xx reply with content.
ApiReplies ==
    {[kind |-> k, content |-> <<>>] : k \in {"transport", "no_choices", "malformed"}}
    \cup {[kind |-> "content", content |-> c] : c \in ReplyContents}

\* line 133: "AI response was empty."
EmptyResponseText ==
    <<65, 73, 32, 114, 101, 115, 112, 111, 110, 115, 101, 32, 119, 97, 115, 32,
      101, 109, 112, 116, 121, 46>>

\* "if not x" of a str, a dict or None
Falsy(x) == DOMAIN x = {}

\* a retry loop that runs one attempt too many: range(4)
RetriesExhausted_OneMore(failed) == failed + 1 > ApiAttempts

\* line 119: the loop of call_deepseek_api is over after this failed attempt
RetriesExhausted(failed) == failed + 1 >= ApiAttempts

\* line 65: the loop stops before the next file
CancelCheck(cancelled) == cancelled

\* a run that writes what it has whether or not it was cancelled
ShouldWrite_Always(cancelled) == TRUE

\* line 77: the CSV is written after the loop
ShouldWrite(cancelled) == ~cancelled

VARIABLES
    pc,               \* where run() is
    total_pdfs,       \* len(pdf_files)
    i,                \* the loop index of run(), from 0
    is_cancelled,     \* self.is_cancelled
    processed_files,  \* the dict processed_files, in insertion order
    attempt,          \* the loop index of call_deepseek_api
    categorized_text, \* the response handed to parse_and_score_response
    categorized_data, \* what process_single_pdf returns (None as the empty dict)
    log,              \* status messages of the batch
    file_log,         \* status messages of the file in progress
    errors,           \* signals.error emitted
    finished,         \* signals.finished emitted
    csv,              \* the output file
    score_model,      \* self.score_model is not None
    gui_worker,       \* PDFCategorizerGUI.worker is not None
    pending,          \* finished signals queued for the GUI thread
    success_dialogs,  \* "Processing complete" dialogs shown
    outcome,          \* history: how the file in progress ended
    attempts,         \* history: requests made for the file in progress
    batch_fatal,      \* history: the listing or the output file failed
    stop_at,          \* history: where run() was when stop() set the flag
    inp, out, phase   \* input, result and progress of a function applied alone

vars == <<pc, total_pdfs, i, is_cancelled, processed_files, attempt, categorized_text,
          categorized_data, log, file_log, errors, finished, csv, score_model,
          gui_worker, pending, success_dialogs, outcome, attempts,
          batch_fatal, stop_at, inp, out, phase>>

workerVars == <<pc, total_pdfs, i, is_cancelled, processed_files, attempt,
                categorized_text, categorized_data, log, file_log, errors, finished,
                csv, score_model, gui_worker, pending, success_dialogs, outcome,
                attempts, batch_fatal, stop_at>>

pureVars == <<inp, out, phase>>

\* stop_at when stop() has not run
NotStopped == [at |-> "never", i |-> 0]

\* the state when the thread starts run() on a new worker
InitWorker ==
    /\ pc = "list"
    /\ i = 0
    /\ is_cancelled = FALSE
    /\ processed_files = <<>>
    /\ attempt = 0
    /\ categorized_text = <<>>
    /\ categorized_data = EmptyDict
    /\ log = {}
    /\ file_log = {}
    /\ errors = 0
    /\ finished = 0
    /\ csv = NoFile
    /\ gui_worker = TRUE
    /\ pending = 0
    /\ success_dialogs = 0
    /\ outcome = "none"
    /\ attempts = 0
    /\ batch_fatal = FALSE
    /\ stop_at = NotStopped

Init ==
    /\ InitWorker
    /\ total_pdfs \in 0..MaxFiles
    /\ score_model \in BOOLEAN
    /\ inp = <<>>
    /\ out = <<>>
    /\ phase = "worker"

\* the current file, from 1
cur == i + 1

SetOutcome(o) == outcome' = o
FileLog(m) == file_log' = file_log \cup {m}

\* line 57-62: the listing of the folder
ListDir ==
    /\ pc = "list"
    /\ \E listable \in BOOLEAN :
        IF ~listable
        THEN /\ errors' = errors + 1
             /\ batch_fatal' = TRUE
             /\ pc' = "finally"
             /\ UNCHANGED <<log, finished, pending>>
        ELSE IF total_pdfs = 0
        THEN /\ log' = log \cup {"no_pdf_files"}
             /\ finished' = finished + 1
             /\ pending' = pending + 1
             /\ pc' = "finally"
             /\ UNCHANGED <<errors, batch_fatal>>
        ELSE /\ pc' = "check"
             /\ UNCHANGED <<errors, batch_fatal, log, finished, pending>>
    /\ UNCHANGED <<total_pdfs, i, is_cancelled, processed_files, attempt,
                   categorized_text, categorized_data, file_log, csv, score_model,
                   gui_worker, success_dialogs, outcome, attempts, stop_at>>
    /\ UNCHANGED pureVars

\* lines 64-67: the top of the loop
LoopCheck ==
    /\ pc = "check"
    /\ IF i = total_pdfs
       THEN pc' = "after_loop" /\ UNCHANGED log
       ELSE IF CancelCheck(is_cancelled)
       THEN pc' = "after_loop" /\ log' = log \cup {"processing_cancelled"}
       ELSE pc' = "start" /\ UNCHANGED log
    /\ UNCHANGED <<total_pdfs, i, is_cancelled, processed_files, attempt,
                   categorized_text, categorized_data, file_log, errors, finished, csv,
                   score_model, gui_worker, pending, success_dialogs, outcome, attempts,
                   batch_fatal, stop_at>>
    /\ UNCHANGED pureVars

\* lines 68-72: the record of the file is created
StartFile ==
    /\ pc = "start"
    /\ processed_files' = Append(processed_files, FileNameKey :> StrVal(PdfName(cur)))
    /\ file_log' = {"processing"}
    /\ outcome' = "running"
    /\ attempts' = 0
    /\ pc' = "extract"
    /\ UNCHANGED <<total_pdfs, i, is_cancelled, attempt, categorized_text,
                   categorized_data, log, errors, finished, csv, score_model,
                   gui_worker, pending, success_dialogs, batch_fatal, stop_at>>
    /\ UNCHANGED pureVars

\* lines 86-88: extract_and_clean_text and the test of its result
Extract ==
    /\ pc = "extract"
    /\ \E readable \in BOOLEAN, pages \in PageTexts :
        IF ~readable
        THEN /\ SetOutcome("unreadable")
             /\ FileLog("error_reading")
             /\ categorized_data' = EmptyDict
             /\ pc' = "merge"
             /\ UNCHANGED attempt
        ELSE IF Falsy(CleanText(Disclaimers, pages))
        THEN /\ SetOutcome("no_text")
             /\ categorized_data' = EmptyDict
             /\ pc' = "merge"
             /\ UNCHANGED <<attempt, file_log>>
        ELSE /\ attempt' = 0
             /\ pc' = "api"
             /\ UNCHANGED <<outcome, file_log, categorized_data>>
    /\ UNCHANGED <<total_pdfs, i, is_cancelled, processed_files, categorized_text, log,
                   errors, finished, csv, score_model, gui_worker, pending,
                   success_dialogs, attempts, batch_fatal, stop_at>>
    /\ UNCHANGED pureVars

\* lines 119-138 and 92: one request of call_deepseek_api
ApiAttempt ==
    /\ pc = "api"
    /\ attempt < ApiAttempts
    /\ attempts' = attempts + 1
    /\ \E reply \in ApiReplies :
        CASE reply.kind = "transport" ->
                /\ attempt' = attempt + 1
                /\ IF RetriesExhausted(attempt)
                   THEN /\ SetOutcome("api_failed")
                        /\ FileLog("api_failed")
                        /\ categorized_data' = EmptyDict
                        /\ pc' = "merge"
                   ELSE /\ pc' = "api"
                        /\ UNCHANGED <<outcome, file_log, categorized_data>>
                /\ UNCHANGED <<errors, categorized_text>>
          [] reply.kind = "malformed" ->
                /\ SetOutcome("raised")
                /\ errors' = errors + 1
                /\ pc' = "finally"
                /\ UNCHANGED <<attempt, file_log, categorized_data, categorized_text>>
          [] reply.kind = "no_choices" ->
                /\ categorized_text' = EmptyResponseText
                /\ FileLog("raw_response")
                /\ pc' = "parse"
                /\ UNCHANGED <<attempt, outcome, categorized_data, errors>>
          [] reply.kind = "content" ->
                /\ FileLog("raw_response")
                /\ IF Falsy(Strip(reply.content))
                   THEN /\ SetOutcome("empty_response")
                        /\ categorized_data' = EmptyDict
                        /\ pc' = "merge"
                        /\ UNCHANGED categorized_text
                   ELSE /\ categorized_text' = Strip(reply.content)
                        /\ pc' = "parse"
                        /\ UNCHANGED <<outcome, categorized_data>>
                /\ UNCHANGED <<attempt, errors>>
    /\ UNCHANGED <<total_pdfs, i, is_cancelled, processed_files, log, finished, csv,
                   score_model, gui_worker, pending, success_dialogs, batch_fatal,
                   stop_at>>
    /\ UNCHANGED pureVars

\* the scorer's results for the pairs of a response
ScorerRuns(text) ==
    IF score_model
    THEN [1..PairCount(text) -> ScorerOutcomes]
    ELSE {[j \in 1..PairCount(text) |-> [raised |-> TRUE, val |-> 0]]}

\* lines 94-95: parse_and_score_response
Parse ==
    /\ pc = "parse"
    /\ \E outcomes \in ScorerRuns(categorized_text) :
        LET r == parse_and_score_response(categorized_text, score_model, outcomes) IN
        /\ categorized_data' = r.file_data
        /\ FileLog(r.logged)
        /\ SetOutcome(IF Falsy(r.file_data) THEN "no_categories" ELSE "categorized")
    /\ categorized_text' = <<>>
    /\ pc' = "merge"
    /\ UNCHANGED <<total_pdfs, i, is_cancelled, processed_files, attempt, log, errors,
                   finished, csv, score_model, gui_worker, pending, success_dialogs,
                   attempts, batch_fatal, stop_at>>
    /\ UNCHANGED pureVars

\* lines 74-75: the result is merged into the record of the file
Merge ==
    /\ pc = "merge"
    /\ processed_files' =
          IF ~Falsy(categorized_data)
          THEN [processed_files EXCEPT ![cur] = DictUpdate(@, categorized_data)]
          ELSE processed_files
    /\ categorized_data' = EmptyDict
    /\ i' = i + 1
    /\ pc' = "check"
    /\ file_log' = {}
    /\ outcome' = "none"
    /\ attempts' = 0
    /\ attempt' = 0
    /\ UNCHANGED <<total_pdfs, is_cancelled, categorized_text, log, errors, finished,
                   csv, score_model, gui_worker, pending, success_dialogs, batch_fatal,
                   stop_at>>
    /\ UNCHANGED pureVars

\* line 77
AfterLoop ==
    /\ pc = "after_loop"
    /\ pc' = IF ShouldWrite(is_cancelled) THEN "write" ELSE "finally"
    /\ UNCHANGED <<total_pdfs, i, is_cancelled, processed_files, attempt,
                   categorized_text, categorized_data, log, file_log, errors, finished,
                   csv, score_model, gui_worker, pending, success_dialogs, outcome,
                   attempts, batch_fatal, stop_at>>
    /\ UNCHANGED pureVars

\* line 78: write_pivoted_csv
WriteCsv ==
    /\ pc = "write"
    /\ \E writable \in BOOLEAN :
        LET w == write_pivoted_csv(processed_files, writable) IN
        /\ csv' = w.file
        /\ log' = log \cup w.logged
        /\ errors' = errors + w.errors
        /\ batch_fatal' = (batch_fatal \/ w.errors > 0)
    /\ pc' = "finally"
    /\ UNCHANGED <<total_pdfs, i, is_cancelled, processed_files, attempt,
                   categorized_text, categorized_data, file_log, finished, score_model,
                   gui_worker, pending, success_dialogs, outcome, attempts,
                   stop_at>>
    /\ UNCHANGED pureVars

\* lines 82-83
Finally ==
    /\ pc = "finally"
    /\ finished' = finished + 1
    /\ pending' = pending + 1
    /\ pc' = "done"
    /\ UNCHANGED <<total_pdfs, i, is_cancelled, processed_files, attempt,
                   categorized_text, categorized_data, log, file_log, errors, csv,
                   score_model, gui_worker, success_dialogs, outcome, attempts,
                   batch_fatal, stop_at>>
    /\ UNCHANGED pureVars

\* cancel_processing / closeEvent -> PdfProcessorWorker.stop, on the GUI thread
Stop ==
    /\ gui_worker
    /\ is_cancelled' = TRUE
    /\ log' = log \cup {"cancellation_signal_received"}
    /\ stop_at' = IF is_cancelled THEN stop_at
                  ELSE IF pc = "check" THEN [at |-> "loop_top", i |-> i]
                  ELSE [at |-> "elsewhere", i |-> 0]
    /\ UNCHANGED <<pc, total_pdfs, i, processed_files, attempt, categorized_text,
                   categorized_data, file_log, errors, finished, csv, score_model,
                   gui_worker, pending, success_dialogs, outcome, attempts,
                   batch_fatal>>
    /\ UNCHANGED pureVars

\* PDFCategorizerGUI.processing_finished, on the GUI thread
ProcessingFinished ==
    /\ pending > 0
    /\ pending' = pending - 1
    /\ success_dialogs' =
          IF gui_worker /\ ~is_cancelled THEN success_dialogs + 1 ELSE success_dialogs
    /\ gui_worker' = FALSE
    /\ UNCHANGED <<pc, total_pdfs, i, is_cancelled, processed_files, attempt,
                   categorized_text, categorized_data, log, file_log, errors, finished,
                   csv, score_model, outcome, attempts, batch_fatal, stop_at>>
    /\ UNCHANGED pureVars

Next ==
    \/ ListDir
    \/ LoopCheck
    \/ StartFile
    \/ Extract
    \/ ApiAttempt
    \/ Parse
    \/ Merge
    \/ AfterLoop
    \/ WriteCsv
    \/ Finally
    \/ Stop
    \/ ProcessingFinished

Spec == Init /\ [][Next]_vars

(* ------------------------------------------------------------------ *)
(* parse_and_score_response applied alone to every short response     *)
(* ------------------------------------------------------------------ *)

\* longest response enumerated character by character
MaxResponseLen == 7

\* all strings over alphabet of length at most n
StringsUpTo(alphabet, n) == UNION {[1..k -> alphabet] : k \in 0..n}

\* '#', '\n', ' ', 'a', 'B'
ResponseAlphabet == {Hash, NL, SP, 97, 66}

\* longer responses: "#GOLD\nUp\n#OIL\nCut", "#a\nB\n#A\na", "Note\n#OIL\nCut\n#a\nB"
SampleResponses ==
    { <<35, 71, 79, 76, 68, 10, 85, 112, 10, 35, 79, 73, 76, 10, 67, 117, 116>>,
      <<35, 97, 10, 66, 10, 35, 65, 10, 97>>,
      <<78, 111, 116, 101, 10, 35, 79, 73, 76, 10, 67, 117, 116, 10, 35, 97, 10, 66>> }

InitParse ==
    /\ InitWorker
    /\ total_pdfs = 0
    /\ score_model \in BOOLEAN
    /\ inp \in StringsUpTo(ResponseAlphabet, MaxResponseLen) \cup SampleResponses
    /\ out = <<>>
    /\ phase = "input"

ParseAlone ==
    /\ phase = "input"
    /\ \E outcomes \in ScorerRuns(inp) :
        out' = parse_and_score_response(inp, score_model, outcomes)
    /\ phase' = "parsed"
    /\ UNCHANGED inp
    /\ UNCHANGED workerVars

NextParse == ParseAlone

SpecParse == InitParse /\ [][NextParse]_vars

(* ------------------------------------------------------------------ *)
(* The cleaning step of extract_and_clean_text applied alone, twice   *)
(* ------------------------------------------------------------------ *)

\* longest page text, longest list of disclaimer patterns
MaxTextLen == 5
MaxPatterns == 2

\* 'a', 'B', ' ', '\n'
TextAlphabet == {97, 66, SP, NL}

\* lines of the disclaimer box: "ab", "a b", "(", " B "
PatternPool == { <<97, 98>>, <<97, 32, 98>>, <<40>>, <<32, 66, 32>> }

InitClean ==
    /\ InitWorker
    /\ total_pdfs = 0
    /\ score_model = FALSE
    /\ inp \in [text : StringsUpTo(TextAlphabet, MaxTextLen),
                disclaimers : StringsUpTo(PatternPool, MaxPatterns)]
    /\ out = [once |-> <<>>, twice |-> <<>>]
    /\ phase = "input"

CleanOnce ==
    /\ phase = "input"
    /\ out' = [out EXCEPT !.once = CleanText(inp.disclaimers, inp.text)]
    /\ phase' = "cleaned"
    /\ UNCHANGED inp
    /\ UNCHANGED workerVars

CleanAgain ==
    /\ phase = "cleaned"
    /\ out' = [out EXCEPT !.twice = CleanText(inp.disclaimers, out.once)]
    /\ phase' = "recleaned"
    /\ UNCHANGED inp
    /\ UNCHANGED workerVars

NextClean == CleanOnce \/ CleanAgain

SpecClean == InitClean /\ [][NextClean]_vars

(* ------------------------------------------------------------------ *)
(* write_pivoted_csv applied to arbitrary records                     *)
(* ------------------------------------------------------------------ *)

\* categories of the records: "A", "A_D", "B"
CategoryPool == { <<65>>, <<65, 95, 68>>, <<66>> }

\* the record run() holds for a file with these categories: "x" as content
RecordOf(name, categories) ==
    [k \in {FileNameKey} \cup {ScoreKey(c) : c \in categories}
                         \cup {ContentKey(c) : c \in categories} |->
        IF k = FileNameKey THEN StrVal(name)
        ELSE IF k \in {ScoreKey(c) : c \in categories} THEN Unscored
        ELSE StrVal(<<120>>)]

\* the orders in which k of the files of the folder can be processed
FileOrders(k) ==
    {o \in [1..k -> 1..MaxFiles] : \A a, b \in 1..k : a # b => o[a] # o[b]}

\* run() after its loop over the files of such a listing, before line 78
InitCsv ==
    /\ \E k \in 1..MaxFiles :
        \E order \in FileOrders(k), cats \in [1..k -> SUBSET CategoryPool] :
            processed_files = [f \in 1..k |-> RecordOf(PdfName(order[f]), cats[f])]
    /\ total_pdfs = Len(processed_files)
    /\ i = total_pdfs
    /\ pc = "write"
    /\ is_cancelled = FALSE
    /\ attempt = 0
    /\ categorized_text = <<>>
    /\ categorized_data = EmptyDict
    /\ log = {}
    /\ file_log = {}
    /\ errors = 0
    /\ finished = 0
    /\ csv = NoFile
    /\ score_model = FALSE
    /\ gui_worker = TRUE
    /\ pending = 0
    /\ success_dialogs = 0
    /\ outcome = "none"
    /\ attempts = 0
    /\ batch_fatal = FALSE
    /\ stop_at = NotStopped
    /\ inp = <<>>
    /\ out = <<>>
    /\ phase = "worker"

NextCsv == WriteCsv \/ Finally

SpecCsv == InitCsv /\ [][NextCsv]_vars


(* ------------------------------------------------------------------ *)
(* Properties                                                         *)
(* ------------------------------------------------------------------ *)

\* stop() set the flag when run() was at the top of the loop with f files done
StoppedAtLoopTop(f) == stop_at = [at |-> "loop_top", i |-> f]

\* the keys of a record that come from categories
CategoryKeys(record) == Keys(record) \ {FileNameKey}

LineStarts(s) == {p \in 1..Len(s) : IsLineStart(s, p)}

\* the first position at or after p that holds a newline (Len(s)+1 if none)
RECURSIVE LineEnd(_, _)
LineEnd(s, p) == IF p > Len(s) \/ s[p] = NL THEN p ELSE LineEnd(s, p + 1)

LineAt(s, p) == SubSeq(s, p, LineEnd(s, p) - 1)

\* a line that, trimmed, is '#' followed by word characters only
IsHeadingLine(line) ==
    LET x == Strip(line) IN
    /\ Len(x) >= 2
    /\ x[1] = Hash
    /\ \A k \in 2..Len(x) : IsWord(x[k])

HeadingStarts(s) == {p \in LineStarts(s) : IsHeadingLine(LineAt(s, p))}

\* the uppercased, trimmed label of the heading line at p
LabelAt(s, p) == Upper(Tail(Strip(LineAt(s, p))))

\* the text between the heading line at p and the next heading line
BodyAt(s, p) ==
    LET later == {q \in HeadingStarts(s) : q > p}
        stop == IF later = {} THEN Len(s) + 1
                ELSE CHOOSE q \in later : \A r \in later : q <= r
    IN  SubSeq(s, LineEnd(s, p), stop - 1)

\* every heading line is followed by a body that is not blank
WellFormedResponse(s) == \A p \in HeadingStarts(s) : ~IsBlank(BodyAt(s, p))

\* the part of s before its first heading line, and the rest
FirstHeading(s) == CHOOSE p \in HeadingStarts(s) : \A q \in HeadingStarts(s) : p <= q
LeadingText(s) == SubSeq(s, 1, FirstHeading(s) - 1)
FromFirstHeading(s) == SubSeq(s, FirstHeading(s), Len(s))

\* C2 as stated: a response with N well-formed heading lines, each followed
\* by a non-empty body, is parsed into exactly N category entries (N _Score
\* and N _Content keys), keyed by the uppercased, trimmed labels.
C2_OneEntryPerHeading ==
    (phase = "parsed" /\ WellFormedResponse(inp)) =>
        /\ Keys(out.file_data) =
              UNION {{ScoreKey(LabelAt(inp, p)), ContentKey(LabelAt(inp, p))} :
                        p \in HeadingStarts(inp)}
        /\ Cardinality(Keys(out.file_data)) = 2 * Cardinality(HeadingStarts(inp))

\* C7 as stated: a non-empty response without a heading line is parsed into
\* zero entries and logged with the "could not parse any #KEYWORDS" warning.
C7_NoHeadingsWarned ==
    (phase = "parsed" /\ inp # <<>> /\ HeadingStarts(inp) = {}) =>
        /\ Keys(out.file_data) = {}
        /\ out.logged = "could_not_parse"

\* the contents of a parsed record: the value under each _Content key
SameEntries(d, e) ==
    /\ Keys(d) = Keys(e)
    /\ \A k \in Keys(d) : d[k].kind = "str" => d[k] = e[k]

\* C9 as stated: non-blank text before the first heading line is discarded;
\* the entries are those of the response without that leading text.
C9_LeadingTextDiscarded ==
    (phase = "parsed" /\ HeadingStarts(inp) # {} /\ ~IsBlank(LeadingText(inp))) =>
        SameEntries(out.file_data,
                    parse_and_score_response(FromFirstHeading(inp), FALSE,
                        [j \in 1..Len(inp) |-> [raised |-> TRUE, val |-> 0]]).file_data)

(* Claims about the batch *)

\* C3 as stated: a per-file error affects only that file; a run that is not
\* cancelled and meets no batch-level failure (listing, output file) goes
\* through every file, signals no error and writes the CSV.
C3_PerFileErrorsNeverAbort ==
    (pc = "done" /\ ~is_cancelled /\ ~batch_fatal) =>
        /\ i = total_pdfs
        /\ errors = 0
        /\ (total_pdfs > 0 => csv.written)

\* C4: when three requests in a row for a file fail at transport level,
\* call_deepseek_api has made exactly 3 requests and returns None without
\* raising, and run() moves on to the next iteration of its loop.
C4_ThreeFailuresThenNextFile ==
    /\ [][(pc = "api" /\ attempt' = ApiAttempts) =>
            /\ attempts' = ApiAttempts
            /\ outcome' = "api_failed"
            /\ Falsy(categorized_data')
            /\ pc' = "merge"
            /\ errors' = errors]_vars
    /\ [][(pc = "merge" /\ outcome = "api_failed" /\ pc' # pc) =>
            /\ pc' = "check"
            /\ i' = i + 1
            /\ errors' = errors
            /\ processed_files' = processed_files]_vars
    /\ [](attempts <= ApiAttempts)

\* C4 witness: the third request of a file has failed and another file follows
C4_Witness ==
    /\ pc = "merge"
    /\ outcome = "api_failed"
    /\ attempts = ApiAttempts
    /\ i + 1 < total_pdfs
    /\ ~is_cancelled

\* no record holds a category
NothingCategorized == \A f \in 1..Len(processed_files) : CategoryKeys(processed_files[f]) = {}

\* C6 as stated: when an uncancelled run over at least one file ends and no
\* file produced a category, no output file is written and the empty result
\* is logged.
C6_NoCategoriesNoFile ==
    (pc = "done" /\ ~is_cancelled /\ errors = 0 /\ total_pdfs >= 1 /\ NothingCategorized) =>
        /\ ~csv.written
        /\ "no_content_categorized" \in log

\* C10 as stated: cancellation is honoured only at a file boundary: a file
\* whose processing has started is carried through to the merge of its
\* result whatever stop() does, and once the flag is set no file is started.
C10_CancelOnlyAtFileBoundary ==
    /\ [][(is_cancelled /\ pc = "check") => pc' # "start"]_vars
    /\ [](pc \in {"after_loop", "write", "finally", "done"} => i = Len(processed_files))

(* Claims about the cleaning step *)

NoPatternMatches(disclaimers, s) ==
    LET patterns == DisclaimerPatterns(disclaimers) IN
    \A k \in 1..Len(patterns) :
        IsValidRegex(patterns[k]) => \A p \in 1..Len(s) : ~MatchesAt(patterns[k], s, p)

AllCategoryKeys == UNION {CategoryKeys(processed_files[f]) : f \in 1..Len(processed_files)}

\* C5: the CSV written has the header FileName followed by the sorted union
\* of the category keys of all records, and one row per record with a cell
\* for every column, empty where the record has no such key.
C5_HeaderIsSortedUnionRowsComplete ==
    csv.written =>
        /\ csv.header[1] = FileNameKey
        /\ Len(csv.header) = 1 + Cardinality(AllCategoryKeys)
        /\ {csv.header[c] : c \in 2..Len(csv.header)} = AllCategoryKeys
        /\ \A c \in 2..(Len(csv.header) - 1) : StrLess(csv.header[c], csv.header[c + 1])
        /\ Len(csv.rows) = Len(processed_files)
        /\ \A f \in 1..Len(csv.rows) :
              /\ Len(csv.rows[f]) = Len(csv.header)
              /\ \A c \in 1..Len(csv.header) :
                    csv.rows[f][c] =
                        IF csv.header[c] \in Keys(processed_files[f])
                        THEN processed_files[f][csv.header[c]]
                        ELSE EmptyCell

\* C5 witness: a CSV written for files in other than listing order, two of
\* them with overlapping and different categories, with an empty cell
C5_Witness ==
    /\ csv.written
    /\ Len(processed_files) >= 2
    /\ processed_files[1][FileNameKey] # StrVal(PdfName(1))
    /\ \E f, g \in 1..Len(processed_files) :
          /\ CategoryKeys(processed_files[f]) \cap CategoryKeys(processed_files[g]) # {}
          /\ CategoryKeys(processed_files[f]) \ CategoryKeys(processed_files[g]) # {}
          /\ CategoryKeys(processed_files[g]) \ CategoryKeys(processed_files[f]) # {}
    /\ \E f \in 1..Len(csv.rows) : \E c \in 1..Len(csv.header) : csv.rows[f][c] = EmptyCell

(* Claims about the records of parse_and_score_response *)

\* the key k is category \o suffix for some category
EndsWith(k, suffix) ==
    /\ Len(k) >= Len(suffix)
    /\ SubSeq(k, Len(k) - Len(suffix) + 1, Len(k)) = suffix

\* the category of a key that ends with suffix
CategoryOfKey(k, suffix) == SubSeq(k, 1, Len(k) - Len(suffix))

\* the categories that have a _Score key, a _Content key in record d
ScoredCategories(d) ==
    {CategoryOfKey(k, ScoreSuffix) : k \in {x \in Keys(d) : EndsWith(x, ScoreSuffix)}}
ContentCategories(d) ==
    {CategoryOfKey(k, ContentSuffix) : k \in {x \in Keys(d) : EndsWith(x, ContentSuffix)}}

\* C11: in every record that parse_and_score_response returns, a category
\* has a _Score key exactly when it has a _Content key, every key is one of
\* the two, the content is not blank, the score is a number, and when no
\* scorer is loaded the score is the sentinel -1.
C11_ScoreWithContentSentinelWhenUnscored ==
    phase = "parsed" =>
        LET d == out.file_data IN
        /\ ScoredCategories(d) = ContentCategories(d)
        /\ \A k \in Keys(d) : EndsWith(k, ScoreSuffix) \/ EndsWith(k, ContentSuffix)
        /\ \A c \in ContentCategories(d) :
              /\ d[ContentKey(c)].kind = "str"
              /\ ~IsBlank(d[ContentKey(c)].str)
        /\ \A c \in ScoredCategories(d) :
              /\ d[ScoreKey(c)].kind \in {"int", "float"}
              /\ (~score_model => d[ScoreKey(c)] = Unscored)

\* C11 witness: without a scorer, a response with a heading whose body is
\* blank and a heading with content has been parsed into one entry
C11_Witness ==
    /\ phase = "parsed"
    /\ ~score_model
    /\ Cardinality(HeadingStarts(inp)) >= 2
    /\ IsBlank(LeadingText(inp))
    /\ ~WellFormedResponse(inp)
    /\ Cardinality(ContentCategories(out.file_data)) = 1
    /\ \A c \in ScoredCategories(out.file_data) :
          out.file_data[ScoreKey(c)] = Unscored

(* Claims about the notifications of a run *)

\* C12 as stated: every run emits finished exactly once, on every path (no
\* PDF files, normal completion, cancellation, unexpected error), and an
\* error notification comes before it, never after.
C12_FinishedExactlyOnce ==
    /\ [](finished <= 1)
    /\ [](pc = "done" => finished = 1)
    /\ [][finished > 0 => errors' = errors]_vars

====
